---------------------------- MODULE Spec2Model ----------------------------
(***************************************************************************)
(* Model of the Quoridor rules engine of CorridorBots                      *)
(* (src/tablegame_engine.cpp, src/tablegame_engine.h, src/Board.cpp,       *)
(* src/Board.h).                                                           *)
(*                                                                         *)
(* The state is the engine object: the board (roster of player pieces and  *)
(* the vector of placed walls), the wall-presence set m_walls_on_board,    *)
(* the current-player index, and `result`, what the last call reported:    *)
(* "none" for a normal return, else the kind of the exception thrown, or   *)
(* "abort" when a failed assert stopped the process; `returned` is the     *)
(* value the last call handed back, tagged with the function that was      *)
(* called (Void for a command, which returns nothing).                     *)
(* The asserts of IsWallBetweenAdjPos abort the process in a build without *)
(* NDEBUG and are compiled out in a build with it: at a failing assert the *)
(* model takes both outcomes.                                              *)
(*                                                                         *)
(* Three specifications share the state and the actions: Spec, the game    *)
(* engine with two pieces and walls; SpecGame, the game engine with up to  *)
(* four pieces and its queries; SpecPlayer, the player engine, whose board *)
(* is loaded with UpdateBoard.                                             *)
(***************************************************************************)
EXTENDS Integers, Sequences, FiniteSets

VARIABLES m_board, m_walls_on_board, m_current_player, result, returned

vars == <<m_board, m_walls_on_board, m_current_player, result, returned>>

(***************************************************************************)
(* Program constants.                                                      *)
(***************************************************************************)
m_board_side_length == 9

m_wall_pos_per_side == m_board_side_length - 1

(***************************************************************************)
(* Bounds of the model.                                                    *)
(***************************************************************************)
\* successful AddWall commands explored
MaxWalls == 2

\* roster length up to which QuoridorInit is explored
MaxRoster == 2

\* value up to which NextTurn is explored when the index does not wrap
MaxTurn == 1

\* cells of row 5, from column 0, that move commands aim at
SideCells == 2

\* roster length up to which QuoridorInit is explored in four-player games
MaxPieces == 6

\* pieces on the boards handed to UpdateBoard
MaxLoaded == 2

(***************************************************************************)
(* Value types (Board.h, Board.cpp).                                       *)
(***************************************************************************)
Int8(v) == ((v + 128) % 256) - 128

Abs(v) == IF v < 0 THEN -v ELSE v

B2I(b) == IF b THEN 1 ELSE 0

Pos(x, y) == [x |-> x, y |-> y]

PosAdd(a, b) == Pos(Int8(a.x + b.x), Int8(a.y + b.y))

Wall(x, y, v) == [pos |-> Pos(x, y), vertical |-> v]

Piece(p, n) == [pos |-> p, name |-> n]

player_positions == <<Pos(0, 4), Pos(8, 4), Pos(4, 0), Pos(4, 8)>>

(***************************************************************************)
(* Grid geometry.                                                          *)
(***************************************************************************)
\* IsPosLegal with <= for < in the upper bounds
IsPosLegal_OffByOne(pos) ==
    /\ pos.x >= 0 /\ pos.x <= m_board_side_length
    /\ pos.y >= 0 /\ pos.y <= m_board_side_length

IsPosLegal(pos) ==
    /\ pos.x >= 0 /\ pos.x < m_board_side_length
    /\ pos.y >= 0 /\ pos.y < m_board_side_length

IsWallLegal(wall) ==
    /\ wall.pos.x >= 0 /\ wall.pos.x < m_wall_pos_per_side
    /\ wall.pos.y >= 0 /\ wall.pos.y < m_wall_pos_per_side

(***************************************************************************)
(* Queries over the board.                                                 *)
(***************************************************************************)
players == m_board.players

findWall(wall) == wall \in m_walls_on_board

IsPosFree(pos) == \A i \in 1..Len(players) : players[i].pos # pos

\* the loop of findPlayer from iterator position it; Len + 1 is end()
RECURSIVE findPlayerFrom(_, _)
findPlayerFrom(it, player_name) ==
    IF it > Len(players) THEN it
    ELSE IF players[it].name = player_name THEN it
    ELSE findPlayerFrom(it + 1, player_name)

findPlayer(player_name) == findPlayerFrom(1, player_name)

\* the value GetPlayerPos returns when the player is found
GetPlayerPos(player_name) == players[findPlayer(player_name)].pos

\* the condition of the assert at the head of both IsWallBetweenAdjPos
AdjAssert(a, b) == Abs(b.x - a.x) + Abs(b.y - a.y) = 1

\* the value IsWallBetweenAdjPos( a, b ) computes once past its assert
IsWallBetweenAdjPos(a, b) ==
    IF ~IsPosLegal(a) \/ ~IsPosLegal(b)
    THEN TRUE
    ELSE LET x_min == IF a.x < b.x THEN a.x ELSE b.x
             y_min == IF a.y < b.y THEN a.y ELSE b.y
             vertical == (y_min # 0)
         IN  \/ findWall(Wall(x_min, y_min, ~vertical))
             \/ findWall(Wall(Int8(x_min - B2I(vertical)),
                              Int8(y_min - B2I(~vertical)), ~vertical))

(***************************************************************************)
(* Move validator.                                                         *)
(***************************************************************************)
PosDiff(cur_pos, new_pos) ==
    Int8(Abs(Int8(new_pos.x - cur_pos.x)) + Abs(Int8(new_pos.y - cur_pos.y)))

\* C division truncates towards zero
HalfOf(d) == IF d < 0 THEN -((-d) \div 2) ELSE d \div 2

\* one pass of the loop over the two elbow cells of a diagonal move
ElbowOk(cur_pos, new_pos, pos_jump_over) ==
    LET pos_straight_jump_to == Pos(Int8(2 * cur_pos.x - pos_jump_over.x),
                                    Int8(2 * cur_pos.y - pos_jump_over.y))
    IN  /\ ~IsPosFree(pos_jump_over)
        /\ IsWallBetweenAdjPos(pos_jump_over, pos_straight_jump_to)
        /\ ~IsWallBetweenAdjPos(cur_pos, pos_jump_over)
        /\ ~IsWallBetweenAdjPos(pos_jump_over, new_pos)

\* the value CheckMove returns when no assert stops it
CheckMove(cur_pos, new_pos) ==
    LET x_diff == Int8(new_pos.x - cur_pos.x)
        y_diff == Int8(new_pos.y - cur_pos.y)
        pos_diff == PosDiff(cur_pos, new_pos)
    IN  IF ~IsPosLegal(new_pos) THEN FALSE
        ELSE IF ~IsPosFree(new_pos) THEN FALSE
        ELSE IF pos_diff = 0 \/ pos_diff > 2 THEN FALSE
        ELSE IF IsWallBetweenAdjPos(cur_pos, new_pos) THEN FALSE
        ELSE IF pos_diff = 1 THEN TRUE
        ELSE IF Abs(y_diff) = 2 \/ Abs(x_diff) = 2
             THEN LET pos_jump_over == Pos(Int8(cur_pos.x + HalfOf(x_diff)),
                                           Int8(cur_pos.y + HalfOf(y_diff)))
                  IN  IF IsPosFree(pos_jump_over) THEN FALSE
                      ELSE IsWallBetweenAdjPos(pos_jump_over, new_pos)
             ELSE \/ ElbowOk(cur_pos, new_pos, Pos(cur_pos.x, new_pos.y))
                  \/ ElbowOk(cur_pos, new_pos, Pos(new_pos.x, cur_pos.y))

\* CheckMove reaches a call of IsWallBetweenAdjPos whose assert fails: the
\* first call, on ( cur_pos, new_pos ), is reached by every legal, free target
\* at distance 1 or 2, and every later call lies behind it
CheckMoveAsserts(cur_pos, new_pos) ==
    /\ IsPosLegal(new_pos)
    /\ IsPosFree(new_pos)
    /\ PosDiff(cur_pos, new_pos) \in {1, 2}
    /\ ~AdjAssert(cur_pos, new_pos)

(***************************************************************************)
(* Wall validator.                                                         *)
(***************************************************************************)
\* CheckAddWall without the lookup of the crossing wall of the same slot
CheckAddWall_NoCross(wall) ==
    IF ~IsWallLegal(wall) THEN FALSE
    ELSE LET x == wall.pos.x
             y == wall.pos.y
             vertical == wall.vertical
         IN  /\ ~findWall(wall)
             /\ ~findWall(Wall(Int8(x + B2I(~vertical)),
                               Int8(y + B2I(vertical)), vertical))
             /\ ~findWall(Wall(Int8(x - B2I(~vertical)),
                               Int8(y - B2I(vertical)), vertical))

\* CheckAddWall with the neighbour offsets taken across the wall's axis
CheckAddWall_SwappedAxis(wall) ==
    IF ~IsWallLegal(wall) THEN FALSE
    ELSE LET x == wall.pos.x
             y == wall.pos.y
             vertical == wall.vertical
         IN  /\ ~findWall(wall)
             /\ ~findWall([pos |-> wall.pos, vertical |-> ~vertical])
             /\ ~findWall(Wall(Int8(x + B2I(vertical)),
                               Int8(y + B2I(~vertical)), vertical))
             /\ ~findWall(Wall(Int8(x - B2I(vertical)),
                               Int8(y - B2I(~vertical)), vertical))

CheckAddWall(wall) ==
    IF ~IsWallLegal(wall) THEN FALSE
    ELSE LET x == wall.pos.x
             y == wall.pos.y
             vertical == wall.vertical
         IN  /\ ~findWall(wall)
             /\ ~findWall([pos |-> wall.pos, vertical |-> ~vertical])
             /\ ~findWall(Wall(Int8(x + B2I(~vertical)),
                               Int8(y + B2I(vertical)), vertical))
             /\ ~findWall(Wall(Int8(x - B2I(~vertical)),
                               Int8(y - B2I(vertical)), vertical))

(***************************************************************************)
(* Goal cells and the winner.                                              *)
(***************************************************************************)
\* what a read of player_positions[ player_index ] yields: the entry, or for
\* an index past the four entries whatever lies behind the table
TableReads(player_index) ==
    IF player_index \in 0..3 THEN {player_positions[player_index + 1]}
    ELSE { Pos(x, y) : x \in {-128, 4}, y \in {0, 4} }

\* the set GetGoalPosForPlayerIndex builds from the table entry it read
GoalLine(start) ==
    LET opposite_side_coordinate == Int8(m_board_side_length - 1 - start.x)
    IN  IF start.y = 4
        THEN { Pos(opposite_side_coordinate, j) : j \in 0..(m_board_side_length - 1) }
        ELSE { Pos(j, opposite_side_coordinate) : j \in 0..(m_board_side_length - 1) }

\* the sets GetGoalPosForPlayerIndex( player_index ) can return
GoalPosOutcomes(player_index) ==
    IF player_index < 0 \/ player_index > 4 THEN {{}}
    ELSE { GoalLine(start) : start \in TableReads(player_index) }

\* the loop of FindWinner from player_index on: the names it can return
RECURSIVE FindWinnerFrom(_)
FindWinnerFrom(player_index) ==
    IF player_index >= Len(players) THEN {""}
    ELSE UNION { IF players[player_index + 1].pos \in goal_pos
                 THEN {players[player_index + 1].name}
                 ELSE FindWinnerFrom(player_index + 1)
                 : goal_pos \in GoalPosOutcomes(player_index) }

\* the names FindWinner can return; the empty string when the loop runs out
FindWinnerOutcomes == FindWinnerFrom(0)

\* !FindWinner().empty()
GameOverOutcomes == { winner # "" : winner \in FindWinnerOutcomes }

(***************************************************************************)
(* Path search of CheckWallBlocksPath.                                     *)
(***************************************************************************)
\* left, right, up, down
Directions == { Pos(-1, 0), Pos(1, 0), Pos(0, -1), Pos(0, 1) }

\* IsWallBetweenAdjPosWall looking for a wall along the step, not across it
IsWallBetweenAdjPosWall_Parallel(a, b, wall) ==
    IF ~IsPosLegal(a) \/ ~IsPosLegal(b) \/ ~IsWallLegal(wall)
    THEN FALSE
    ELSE LET x_min == IF a.x < b.x THEN a.x ELSE b.x
             y_min == IF a.y < b.y THEN a.y ELSE b.y
             vertical == (y_min # 0)
         IN  /\ vertical = wall.vertical
             /\ \/ wall.pos = Pos(x_min, y_min)
                \/ wall.pos = Pos(Int8(x_min - B2I(vertical)),
                                  Int8(y_min - B2I(~vertical)))

\* the value IsWallBetweenAdjPos( a, b, wall ) computes once past its assert
IsWallBetweenAdjPosWall(a, b, wall) ==
    IF ~IsPosLegal(a) \/ ~IsPosLegal(b) \/ ~IsWallLegal(wall)
    THEN FALSE
    ELSE LET x_min == IF a.x < b.x THEN a.x ELSE b.x
             y_min == IF a.y < b.y THEN a.y ELSE b.y
             vertical == (y_min # 0)
         IN  /\ vertical # wall.vertical
             /\ \/ wall.pos = Pos(x_min, y_min)
                \/ wall.pos = Pos(Int8(x_min - B2I(vertical)),
                                  Int8(y_min - B2I(~vertical)))

\* the while( true ) loop for one player, entered with the two sets and the
\* number of passes made so far.  A pass builds the (to, from) pairs of the
\* reachable cells, drops the pairs whose key is in last_iter_pos, and tests
\* the rest: it ends at "goal" on the break, at "blocked" on return true, and
\* at "loops" when the pass leaves both sets as it found them, so that every
\* later pass repeats it
RECURSIVE PathLoop(_, _, _, _, _)
PathLoop(goal_pos, wall, reachable_pos, last_iter_pos, passes) ==
    LET to_from_check_pairs ==
            { <<PosAdd(pos, dir), pos>> : pos \in reachable_pos, dir \in Directions }
        kept == { pos_pair \in to_from_check_pairs : pos_pair[1] \notin last_iter_pos }
        open == { pos_pair \in kept :
                    /\ ~IsWallBetweenAdjPos(pos_pair[2], pos_pair[1])
                    /\ ~IsWallBetweenAdjPosWall(pos_pair[2], pos_pair[1], wall) }
        inserted == { pos_pair[2] : pos_pair \in open }
    IN  IF inserted \cap goal_pos # {}
        THEN [end |-> "goal", passes |-> passes + 1]
        ELSE IF inserted = {}
        THEN [end |-> "blocked", passes |-> passes + 1]
        ELSE IF inserted = reachable_pos /\ reachable_pos = last_iter_pos
        THEN [end |-> "loops", passes |-> passes + 1]
        ELSE PathLoop(goal_pos, wall, inserted, reachable_pos, passes + 1)

\* the for loop over the players from player_index on, the two sets being
\* allocated: "false" and "true" are the values returned, "hang" a search
\* that never ends
RECURSIVE PathsFrom(_, _)
PathsFrom(player_index, wall) ==
    IF player_index >= Len(players) THEN {[kind |-> "false", passes |-> 0]}
    ELSE UNION {
           LET search == PathLoop(goal_pos, wall,
                                  {players[player_index + 1].pos}, {}, 0)
           IN  IF search.end = "blocked"
               THEN {[kind |-> "true", passes |-> search.passes]}
               ELSE IF search.end = "loops"
               THEN {[kind |-> "hang", passes |-> search.passes]}
               ELSE { [kind |-> rest.kind,
                       passes |-> IF rest.passes > search.passes
                                  THEN rest.passes ELSE search.passes]
                      : rest \in PathsFrom(player_index + 1, wall) }
           : goal_pos \in GoalPosOutcomes(player_index) }

\* how a call of CheckWallBlocksPath( wall ) can end.  With a piece on the
\* roster the call reaches reachable_pos->insert on a unique_ptr that holds
\* no set: the behaviour is undefined, and the model takes the crash of the
\* process and the run of the loops on allocated sets
WallBlocksOutcomes(wall) ==
    IF Len(players) = 0 THEN {[kind |-> "false", passes |-> 0]}
    ELSE {[kind |-> "segfault", passes |-> 0]} \cup PathsFrom(0, wall)

(***************************************************************************)
(* Queries of the player engine.                                           *)
(***************************************************************************)
\* moves_to_check with the adjacent cells only, no jump candidates
MovesToCheck_AdjOnly(player_pos) ==
    { PosAdd(player_pos, dir) : dir \in Directions } \ {player_pos}

\* the set moves_to_check of GetPossibleMoves, after the erase
MovesToCheck(player_pos) ==
    UNION { LET adj_move == PosAdd(player_pos, dir)
            IN  IF IsPosFree(adj_move)
                THEN {adj_move}
                ELSE { PosAdd(adj_move, step) : step \in Directions }
            : dir \in Directions } \ {player_pos}

\* the vector a loop over a std::set fills with push_back
RECURSIVE VectorOf(_)
VectorOf(set) ==
    IF set = {} THEN <<>>
    ELSE LET first == CHOOSE pos \in set : TRUE
         IN  <<first>> \o VectorOf(set \ {first})

\* how a call of GetPossibleMoves( player_name ) can end
PossibleMovesOutcomes(player_name) ==
    IF findPlayer(player_name) > Len(players)
    THEN {[kind |-> "PlayerNotFound", val |-> <<>>]}
    ELSE LET player_pos == GetPlayerPos(player_name)
             moves_to_check == MovesToCheck(player_pos)
         IN  {[kind |-> "return",
               val |-> VectorOf({ move_to_check \in moves_to_check :
                                    CheckMove(player_pos, move_to_check) })]}
             \cup (IF \E move_to_check \in moves_to_check :
                         CheckMoveAsserts(player_pos, move_to_check)
                   THEN {[kind |-> "abort", val |-> <<>>]} ELSE {})

\* how a call of IsMovePossible( player_name, pos ) can end
MovePossibleOutcomes(player_name, pos) ==
    IF findPlayer(player_name) > Len(players)
    THEN {[kind |-> "PlayerNotFound", val |-> FALSE]}
    ELSE LET player_pos == GetPlayerPos(player_name)
         IN  {[kind |-> "return", val |-> CheckMove(player_pos, pos)]}
             \cup (IF CheckMoveAsserts(player_pos, pos)
                   THEN {[kind |-> "abort", val |-> FALSE]} ELSE {})

(***************************************************************************)
(* Inputs of the commands.                                                 *)
(***************************************************************************)
NameLists ==
    { <<>>, <<"A">>, <<"A", "B">>, <<"A", "A">>, <<"A", "B", "C">> }

\* targets of move commands: row 4 with one cell beyond each edge, the first
\* cells of row 5, and one cell below the board
MoveTargets ==
    { Pos(x, 4) : x \in -1..m_board_side_length }
    \cup { Pos(x, 5) : x \in 0..(SideCells - 1) }
    \cup { Pos(4, m_board_side_length) }

\* (name, target) of move commands; "Z" is never on the roster
MoveInputs ==
    ({"A", "B"} \X MoveTargets) \cup {<<"Z", Pos(1, 4)>>}

WallInputs ==
    { Wall(0, 4, TRUE), Wall(0, 3, TRUE), Wall(1, 4, TRUE),
      Wall(0, 4, FALSE), Wall(1, 4, FALSE),
      Wall(-1, 4, TRUE), Wall(0, m_wall_pos_per_side, FALSE) }

(***************************************************************************)
(* The engine after construction: empty board, current player 0.           *)
(***************************************************************************)
\* the process is gone (failed assert, crash) or stuck in a loop
Aborted == result \in {"abort", "segfault", "hang"}

\* what a function of return type void hands back, and what is left of a
\* call that threw or aborted
Void == [op |-> "void", val |-> "void"]

Init ==
    /\ m_board = [players |-> <<>>, walls |-> <<>>]
    /\ m_walls_on_board = {}
    /\ m_current_player = 0
    /\ result = "none"
    /\ returned = Void

(***************************************************************************)
(* Commands.                                                               *)
(***************************************************************************)
InitOutcome(player_names) ==
    IF Len(player_names) < 2 THEN "TooFewPlayers" ELSE "none"

\* NewPieces taking the start cells from the far end of the table
NewPieces_SwappedStart(player_names) ==
    LET player_names_size == IF Len(player_names) >= 4 THEN 4 ELSE 2
    IN  [i \in 1..player_names_size |->
            Piece(player_positions[player_names_size + 1 - i], player_names[i])]

\* the pieces QuoridorInit pushes on the roster
NewPieces(player_names) ==
    LET player_names_size == IF Len(player_names) >= 4 THEN 4 ELSE 2
    IN  [i \in 1..player_names_size |->
            Piece(player_positions[i], player_names[i])]

\* the board after the push_back loop
InitBoard(player_names) ==
    [m_board EXCEPT !.players = @ \o NewPieces(player_names)]

\* QuoridorInit, explored while the roster stays within cap pieces
QuoridorInitUpTo(player_names, cap) ==
    /\ ~Aborted
    /\ result' = InitOutcome(player_names)
    /\ IF InitOutcome(player_names) # "none"
       THEN UNCHANGED m_board
       ELSE /\ Len(players) + Len(NewPieces(player_names)) <= cap
            /\ m_board' = InitBoard(player_names)
    /\ returned' = Void
    /\ UNCHANGED <<m_walls_on_board, m_current_player>>

QuoridorInit(player_names) == QuoridorInitUpTo(player_names, MaxRoster)

\* what MovePlayer reports: the exception of GetPlayerPos, or over the builds
\* the abort of a failing assert and the verdict of CheckMove
MoveOutcomes(player_name, new_pos) ==
    IF findPlayer(player_name) > Len(players) THEN {"PlayerNotFound"}
    ELSE LET player_pos == GetPlayerPos(player_name)
         IN  (IF CheckMove(player_pos, new_pos)
              THEN {"none"} ELSE {"IllegalMove"})
             \cup (IF CheckMoveAsserts(player_pos, new_pos)
                   THEN {"abort"} ELSE {})

\* MovePlayer assigning to a copy of the position, not to the reference
MovedBoard_Copy(player_name, new_pos) == m_board

\* the board after the assignment player_pos = new_pos
MovedBoard(player_name, new_pos) ==
    [m_board EXCEPT !.players[findPlayer(player_name)].pos = new_pos]

MovePlayer(player_name, new_pos) ==
    \E outcome \in MoveOutcomes(player_name, new_pos) :
        /\ ~Aborted
        /\ result' = outcome
        /\ m_board' = IF outcome = "none"
                      THEN MovedBoard(player_name, new_pos)
                      ELSE m_board
        /\ returned' = Void
        /\ UNCHANGED <<m_walls_on_board, m_current_player>>

\* WallOutcome throwing an exception type of its own
WallOutcome_OwnKind(wall) ==
    IF ~CheckAddWall(wall) THEN "IllegalWallPlacement" ELSE "none"

WallOutcome(wall) ==
    IF ~CheckAddWall(wall) THEN "IllegalMove" ELSE "none"

\* AddWall pushing the wall on the board before the check
AddWall_PushFirst(wall) ==
    \E outcome \in {WallOutcome(wall)} :
        /\ ~Aborted
        /\ Len(m_board.walls) < MaxWalls
        /\ result' = outcome
        /\ m_board' = [m_board EXCEPT !.walls = Append(@, wall)]
        /\ m_walls_on_board' = IF outcome = "none"
                               THEN m_walls_on_board \cup {wall}
                               ELSE m_walls_on_board
        /\ returned' = Void
        /\ UNCHANGED m_current_player

AddWall(wall) ==
    \E outcome \in {WallOutcome(wall)} :
        /\ ~Aborted
        /\ result' = outcome
        /\ IF outcome # "none"
           THEN UNCHANGED <<m_board, m_walls_on_board>>
           ELSE /\ Len(m_board.walls) < MaxWalls
                /\ m_board' = [m_board EXCEPT !.walls = Append(@, wall)]
                /\ m_walls_on_board' = m_walls_on_board \cup {wall}
        /\ returned' = Void
        /\ UNCHANGED m_current_player

\* the index NextTurn leaves
TurnAfter(current_player, players_count) ==
    IF current_player + 1 = players_count THEN 0 ELSE current_player + 1

NextTurn ==
    /\ ~Aborted
    /\ LET players_count == Len(players)
           incremented == m_current_player + 1
       IN  /\ incremented = players_count \/ incremented <= MaxTurn
           /\ m_current_player' = TurnAfter(m_current_player, players_count)
    /\ result' = "none"
    /\ returned' = Void
    /\ UNCHANGED <<m_board, m_walls_on_board>>

Next ==
    \/ \E player_names \in NameLists : QuoridorInit(player_names)
    \/ \E move \in MoveInputs : MovePlayer(move[1], move[2])
    \/ \E wall \in WallInputs : AddWall(wall)
    \/ NextTurn

Spec == Init /\ [][Next]_vars

(***************************************************************************)
(* Queries.  A query leaves the engine as it is; the model records how the *)
(* call ended in `result` and the value handed back in `returned`.         *)
(***************************************************************************)
FindWinner ==
    \E winner \in FindWinnerOutcomes :
        /\ ~Aborted
        /\ result' = "none"
        /\ returned' = [op |-> "FindWinner", val |-> winner]
        /\ UNCHANGED <<m_board, m_walls_on_board, m_current_player>>

IsGameOver ==
    \E over \in GameOverOutcomes :
        /\ ~Aborted
        /\ result' = "none"
        /\ returned' = [op |-> "IsGameOver", val |-> over]
        /\ UNCHANGED <<m_board, m_walls_on_board, m_current_player>>

GetGoalPosForPlayerIndex(player_index) ==
    \E goal_pos \in GoalPosOutcomes(player_index) :
        /\ ~Aborted
        /\ result' = "none"
        /\ returned' = [op |-> "GetGoalPosForPlayerIndex",
                        val |-> <<player_index, goal_pos>>]
        /\ UNCHANGED <<m_board, m_walls_on_board, m_current_player>>

CheckWallBlocksPath(wall) ==
    \E outcome \in WallBlocksOutcomes(wall) :
        /\ ~Aborted
        /\ result' = IF outcome.kind \in {"true", "false"}
                     THEN "none" ELSE outcome.kind
        /\ returned' = IF outcome.kind \in {"true", "false"}
                       THEN [op |-> "CheckWallBlocksPath",
                             val |-> <<wall, outcome.kind = "true">>]
                       ELSE Void
        /\ UNCHANGED <<m_board, m_walls_on_board, m_current_player>>

GetPossibleMoves(player_name) ==
    \E outcome \in PossibleMovesOutcomes(player_name) :
        /\ ~Aborted
        /\ result' = IF outcome.kind = "return" THEN "none" ELSE outcome.kind
        /\ returned' = IF outcome.kind = "return"
                       THEN [op |-> "GetPossibleMoves",
                             val |-> <<player_name, outcome.val>>]
                       ELSE Void
        /\ UNCHANGED <<m_board, m_walls_on_board, m_current_player>>

IsMovePossible(player_name, pos) ==
    \E outcome \in MovePossibleOutcomes(player_name, pos) :
        /\ ~Aborted
        /\ result' = IF outcome.kind = "return" THEN "none" ELSE outcome.kind
        /\ returned' = IF outcome.kind = "return"
                       THEN [op |-> "IsMovePossible",
                             val |-> <<player_name, pos, outcome.val>>]
                       ELSE Void
        /\ UNCHANGED <<m_board, m_walls_on_board, m_current_player>>

IsWallPossible(wall) ==
    /\ ~Aborted
    /\ result' = "none"
    /\ returned' = [op |-> "IsWallPossible", val |-> <<wall, CheckAddWall(wall)>>]
    /\ UNCHANGED <<m_board, m_walls_on_board, m_current_player>>

UpdateBoard(board) ==
    /\ ~Aborted
    /\ m_board' = board
    /\ result' = "none"
    /\ returned' = Void
    /\ UNCHANGED <<m_walls_on_board, m_current_player>>

(***************************************************************************)
(* The game engine (QuoridorEngine_t) with rosters of up to four pieces:   *)
(* the commands on a narrow set of inputs, and the queries FindWinner,     *)
(* IsGameOver, GetGoalPosForPlayerIndex and CheckWallBlocksPath.           *)
(***************************************************************************)
GameNameLists ==
    { <<"A">>, <<"A", "B">>, <<"", "B">>, <<"A", "B", "C", "D">>,
      <<"A", "B", "C", "D", "E">> }

\* the first piece of a two-player game walks row 4 and round the piece on
\* (8, 4) to column 8, and up column 0 towards the corner; the third piece
\* of a four-player game walks column 4
GameMoves ==
    { <<"", Pos(x, 4)>> : x \in 1..7 }
    \cup { <<"", Pos(7, 5)>>, <<"", Pos(8, 5)>> }
    \cup { <<"", Pos(0, y)>> : y \in 1..3 }
    \cup { <<"C", Pos(4, y)>> : y \in 1..4 }

\* the walls AddWall places, and the walls CheckWallBlocksPath is asked about
GameWalls == { Wall(0, 4, FALSE), Wall(0, 0, TRUE), Wall(0, 1, FALSE) }

AskedWalls == { Wall(0, 3, FALSE), Wall(3, 3, TRUE) }

GoalIndexes == -1..5

GameNext ==
    \/ \E player_names \in GameNameLists : QuoridorInitUpTo(player_names, MaxPieces)
    \/ \E move \in GameMoves : MovePlayer(move[1], move[2])
    \/ \E wall \in GameWalls : AddWall(wall)
    \/ FindWinner
    \/ IsGameOver
    \/ \E player_index \in GoalIndexes : GetGoalPosForPlayerIndex(player_index)
    \/ \E wall \in AskedWalls : CheckWallBlocksPath(wall)

SpecGame == Init /\ [][GameNext]_vars

(***************************************************************************)
(* The player engine (PlayerQuoridorEngine_t): boards are loaded with      *)
(* UpdateBoard and questioned with GetPossibleMoves, IsMovePossible and    *)
(* IsWallPossible; NextTurn is the turn counter of the base class.         *)
(***************************************************************************)
LoadedCells == { Pos(0, 4), Pos(1, 4), Pos(1, 5), Pos(8, 4) }

LoadedNames == <<"A", "B", "C", "D">>

\* rosters of up to MaxLoaded pieces on distinct cells, named in order
LoadedRosters ==
    UNION { { [i \in 1..n |-> Piece(cells[i], LoadedNames[i])] :
                cells \in { c \in [1..n -> LoadedCells] :
                              \A i, j \in 1..n : i # j => c[i] # c[j] } }
            : n \in 0..MaxLoaded }

LoadedWalls == { <<>>, <<Wall(0, 4, TRUE)>>, <<Wall(0, 4, FALSE)>> }

Snapshots ==
    { [players |-> roster, walls |-> walls] :
        roster \in LoadedRosters, walls \in LoadedWalls }

AskedCells == { Pos(1, 4), Pos(1, 5), Pos(2, 4), Pos(0, 5) }

PlayerNext ==
    \/ \E board \in Snapshots : UpdateBoard(board)
    \/ \E player_name \in {"A", "B", "Z"} : GetPossibleMoves(player_name)
    \/ \E player_name \in {"A", "Z"}, pos \in AskedCells :
          IsMovePossible(player_name, pos)
    \/ \E wall \in {Wall(0, 4, TRUE), Wall(0, 3, TRUE)} : IsWallPossible(wall)
    \/ NextTurn

SpecPlayer == Init /\ [][PlayerNext]_vars

(***************************************************************************)
(* The rules of the game as the specification states them, independent of  *)
(* the engine's own helpers.                                               *)
(***************************************************************************)
Cells == { Pos(x, y) : x \in 0..8, y \in 0..8 }

Pieces == 1..Len(players)

Occupied(cell) == \E i \in Pieces : players[i].pos = cell

PlacedWalls == { m_board.walls[k] : k \in 1..Len(m_board.walls) }

Named(name) == \E i \in Pieces : players[i].name = name

FirstNamed(name) ==
    CHOOSE i \in Pieces :
        /\ players[i].name = name
        /\ \A j \in 1..(i - 1) : players[j].name # name

Manhattan(a, b) == Abs(b.x - a.x) + Abs(b.y - a.y)

StepsFrom(c) ==
    { Pos(c.x - 1, c.y), Pos(c.x + 1, c.y), Pos(c.x, c.y - 1), Pos(c.x, c.y + 1) }

StraightJumpsFrom(c) ==
    { Pos(c.x - 2, c.y), Pos(c.x + 2, c.y), Pos(c.x, c.y - 2), Pos(c.x, c.y + 2) }

DiagonalsFrom(c) ==
    { Pos(c.x + dx, c.y + dy) : dx \in {-1, 1}, dy \in {-1, 1} }

\* the two cell edges a wall covers
EdgesOf(w) ==
    LET x == w.pos.x
        y == w.pos.y
    IN  IF w.vertical
        THEN { {Pos(x, y), Pos(x + 1, y)}, {Pos(x, y + 1), Pos(x + 1, y + 1)} }
        ELSE { {Pos(x, y), Pos(x, y + 1)}, {Pos(x + 1, y), Pos(x + 1, y + 1)} }

WallOnEdge(a, b) == \E w \in PlacedWalls : {a, b} \in EdgesOf(w)

Rejections == {"IllegalMove", "PlayerNotFound", "TooFewPlayers"}

(***************************************************************************)
(* C1: a piece may always step to an orthogonally adjacent cell that is on *)
(* the board, unoccupied, and not separated from it by a placed wall:      *)
(* CheckMove accepts and MovePlayer succeeds.                              *)
(***************************************************************************)
C1_AdjacentStepLegal ==
    \A i \in Pieces :
        \A t \in StepsFrom(players[i].pos) \cap Cells :
            (~Occupied(t) /\ ~WallOnEdge(players[i].pos, t))
                => /\ CheckMove(players[i].pos, t)
                   /\ i = FirstNamed(players[i].name)
                        => MoveOutcomes(players[i].name, t) = {"none"}

(***************************************************************************)
(* C2: once a wall is placed, no one-cell move across either of the two    *)
(* edges it covers is accepted, in either direction.                       *)
(***************************************************************************)
C2_PlacedWallBlocks ==
    \A w \in PlacedWalls :
        \A e \in EdgesOf(w) :
            \A a \in e, b \in e :
                a # b => ~CheckMove(a, b)

(***************************************************************************)
(* C3: a rejected command (IllegalMove, PlayerNotFound, TooFewPlayers)     *)
(* leaves roster, placed walls, wall-presence set and current-player index *)
(* as they were.                                                           *)
(***************************************************************************)
C3_RejectionChangesNothing ==
    [][result' \in Rejections
         => UNCHANGED <<m_board, m_walls_on_board, m_current_player>>]_vars

C3_Witness ==
    /\ result = "IllegalMove"
    /\ Len(m_board.walls) = 1
    /\ m_current_player = 1
    /\ Len(players) = 2 /\ players[1].pos = Pos(1, 4)

(***************************************************************************)
(* C4: the board a successful MovePlayer(name, t) leaves has the first     *)
(* piece of that name on t; every other piece, the names and order of the  *)
(* roster and the placed walls are as before.                              *)
(***************************************************************************)
C4_MoveEffect ==
    \A move \in MoveInputs :
        "none" \in MoveOutcomes(move[1], move[2])
            => LET after == MovedBoard(move[1], move[2])
                   k == FirstNamed(move[1])
               IN  /\ Named(move[1])
                   /\ Len(after.players) = Len(players)
                   /\ after.players[k].pos = move[2]
                   /\ \A j \in Pieces :
                        /\ after.players[j].name = players[j].name
                        /\ j # k => after.players[j].pos = players[j].pos
                   /\ after.walls = m_board.walls

C4_Witness ==
    /\ result = "none"
    /\ players = <<Piece(Pos(1, 4), "A"), Piece(Pos(8, 4), "B")>>

(***************************************************************************)
(* C5: for a name on the roster, MovePlayer to a target off the board, to  *)
(* an occupied target, or to a target at Manhattan distance 0 or more than *)
(* 2 from the piece fails with IllegalMove.                                *)
(***************************************************************************)
C5_BadTargetIllegal ==
    \A move \in MoveInputs :
        (/\ Named(move[1])
         /\ \/ move[2] \notin Cells
            \/ Occupied(move[2])
            \/ Manhattan(players[FirstNamed(move[1])].pos, move[2]) \notin {1, 2})
            => MoveOutcomes(move[1], move[2]) = {"IllegalMove"}

C5_Witness ==
    /\ result = "IllegalMove"
    /\ players = <<Piece(Pos(7, 4), "A"), Piece(Pos(8, 4), "B")>>
    /\ m_board.walls = <<>>
    /\ MoveOutcomes("A", Pos(9, 4)) = {"IllegalMove"}

(***************************************************************************)
(* C6: straight jump.  For a target on the board, unoccupied, two cells    *)
(* from the piece along one axis, CheckMove rejects when the cell between  *)
(* them is empty, and when it is occupied accepts exactly when no wall     *)
(* lies between that cell and the target.                                  *)
(***************************************************************************)
C6_StraightJump ==
    \A i \in Pieces :
        \A t \in StraightJumpsFrom(players[i].pos) \cap Cells :
            ~Occupied(t)
                => LET c == players[i].pos
                       mid == Pos((c.x + t.x) \div 2, (c.y + t.y) \div 2)
                   IN  IF Occupied(mid)
                       THEN CheckMove(c, t) <=> ~WallOnEdge(mid, t)
                       ELSE ~CheckMove(c, t)

(***************************************************************************)
(* C7: diagonal jump.  For a target on the board, unoccupied, one cell off *)
(* on both axes, CheckMove accepts exactly when one of the two elbow cells *)
(* E holds a piece, the straight continuation from the piece through E is  *)
(* blocked by a wall or the board edge, and no wall lies between the piece *)
(* and E nor between E and the target.                                     *)
(***************************************************************************)
ElbowAllows(c, e, t) ==
    LET beyond == Pos(2 * e.x - c.x, 2 * e.y - c.y)
    IN  /\ Occupied(e)
        /\ beyond \notin Cells \/ WallOnEdge(e, beyond)
        /\ ~WallOnEdge(c, e)
        /\ ~WallOnEdge(e, t)

C7_DiagonalJump ==
    \A i \in Pieces :
        \A t \in DiagonalsFrom(players[i].pos) \cap Cells :
            ~Occupied(t)
                => LET c == players[i].pos
                   IN  CheckMove(c, t)
                         <=> \/ ElbowAllows(c, Pos(c.x, t.y), t)
                             \/ ElbowAllows(c, Pos(t.x, c.y), t)

(***************************************************************************)
(* C8: the placed walls all sit on slots 0..7, none is placed twice, no    *)
(* slot holds a vertical and a horizontal wall, and no two walls of one    *)
(* orientation sit one slot apart along their own axis.                    *)
(***************************************************************************)
C8_WallsWellPlaced ==
    /\ \A k \in 1..Len(m_board.walls) :
          /\ m_board.walls[k].pos.x \in 0..7
          /\ m_board.walls[k].pos.y \in 0..7
          /\ \A l \in 1..Len(m_board.walls) :
                k # l => m_board.walls[k] # m_board.walls[l]
    /\ \A v \in PlacedWalls, w \in PlacedWalls :
          /\ v.pos = w.pos => v.vertical = w.vertical
          /\ (v.vertical /\ w.vertical /\ v.pos.x = w.pos.x)
                => v.pos.y # w.pos.y + 1
          /\ (~v.vertical /\ ~w.vertical /\ v.pos.y = w.pos.y)
                => v.pos.x # w.pos.x + 1

C8_Witness ==
    /\ result = "IllegalMove"
    /\ Len(m_board.walls) = 2
    /\ \E k \in Pieces : players[k].pos \notin {Pos(0, 4), Pos(8, 4)}

(***************************************************************************)
(* C9: CheckAddWall(w) holds exactly when w's slot is in 0..7 on both axes *)
(* and none of four walls is placed: w, the crossing wall of the same      *)
(* slot, and the walls of w's orientation one slot before and after w      *)
(* along its own axis.                                                     *)
(***************************************************************************)
ProbedWalls ==
    { Wall(x, y, v) : x \in -1..2, y \in 2..5, v \in BOOLEAN }
    \cup { Wall(x, y, v) : x \in {7, 8}, y \in {-1, 0, 7, 8}, v \in BOOLEAN }

Rivals(w) ==
    IF w.vertical
    THEN { w, Wall(w.pos.x, w.pos.y, FALSE),
           Wall(w.pos.x, w.pos.y - 1, TRUE), Wall(w.pos.x, w.pos.y + 1, TRUE) }
    ELSE { w, Wall(w.pos.x, w.pos.y, TRUE),
           Wall(w.pos.x - 1, w.pos.y, FALSE), Wall(w.pos.x + 1, w.pos.y, FALSE) }

StartCells == <<Pos(0, 4), Pos(8, 4), Pos(4, 0), Pos(4, 8)>>

\* the board edge opposite to the start cell of the player with this index
GoalSet(player_index) ==
    IF player_index = 0 THEN { Pos(8, y) : y \in 0..8 }
    ELSE IF player_index = 1 THEN { Pos(0, y) : y \in 0..8 }
    ELSE IF player_index = 2 THEN { Pos(x, 8) : x \in 0..8 }
    ELSE IF player_index = 3 THEN { Pos(x, 0) : x \in 0..8 }
    ELSE {}

\* the pieces standing in their own goal set
AtGoal == { i \in Pieces : players[i].pos \in GoalSet(i - 1) }

\* the cells reached from the frontier by one-cell steps on the board that
\* cross neither a placed wall nor the wall w
RECURSIVE Flood(_, _, _)
Flood(frontier, seen, w) ==
    LET next == UNION { { n \in (StepsFrom(c) \cap Cells) \ seen :
                            /\ ~WallOnEdge(c, n)
                            /\ {c, n} \notin EdgesOf(w) } : c \in frontier }
    IN  IF next = {} THEN seen ELSE Flood(next, seen \cup next, w)

HasPath(i, w) ==
    Flood({players[i].pos}, {players[i].pos}, w) \cap GoalSet(i - 1) # {}

(***************************************************************************)
(* C11: CheckWallBlocksPath(w) returns true exactly when some player has   *)
(* no path of one-cell steps, on the board and across neither a placed     *)
(* wall nor w, from its cell to a cell of its own goal set; on a freshly   *)
(* initialized board without walls it returns false.                       *)
(***************************************************************************)
C11_BlockedIffNoPath ==
    \A w \in AskedWalls :
        { outcome.kind : outcome \in WallBlocksOutcomes(w) }
            = { IF \E i \in Pieces : ~HasPath(i, w) THEN "true" ELSE "false" }

(***************************************************************************)
(* C12: every call of CheckWallBlocksPath(w) returns, and the layer loop   *)
(* of each player makes at most 81 passes.                                 *)
(***************************************************************************)
C12_SearchTerminates ==
    \A w \in AskedWalls :
        \A outcome \in WallBlocksOutcomes(w) :
            /\ outcome.kind \in {"true", "false"}
            /\ outcome.passes <= 81

(***************************************************************************)
(* C13: for every player index 0..3 the goal set is the nine cells of the  *)
(* board edge opposite to that player's start cell: column 8, column 0,    *)
(* row 8 and row 0.                                                        *)
(***************************************************************************)
C13_GoalIsOppositeEdge ==
    (returned.op = "GetGoalPosForPlayerIndex" /\ returned.val[1] \in 0..3)
        => /\ returned.val[2] = GoalSet(returned.val[1])
           /\ GoalPosOutcomes(returned.val[1]) = {GoalSet(returned.val[1])}

(***************************************************************************)
(* C14: for every index outside 0..3, negative ones and 4 among them,      *)
(* GetGoalPosForPlayerIndex returns the empty set.                         *)
(***************************************************************************)
C14_NoGoalOutsideRange ==
    (returned.op = "GetGoalPosForPlayerIndex" /\ returned.val[1] \notin 0..3)
        => /\ returned.val[2] = {}
           /\ GoalPosOutcomes(returned.val[1]) = {{}}

(***************************************************************************)
(* C15: FindWinner returns the name of the first piece in roster order     *)
(* that stands in its own goal set, and the empty string when no piece     *)
(* stands in its own goal set.                                             *)
(***************************************************************************)
C15_WinnerIsFirstAtGoal ==
    FindWinnerOutcomes
        = { IF AtGoal = {} THEN ""
            ELSE players[CHOOSE i \in AtGoal : \A j \in AtGoal : i <= j].name }

(***************************************************************************)
(* C16: IsGameOver is true exactly when some piece stands in its own goal  *)
(* set, whatever the names of the players, the empty string among them.    *)
(***************************************************************************)
C16_GameOverIffAtGoal ==
    GameOverOutcomes = { AtGoal # {} }

(***************************************************************************)
(* C17: QuoridorInit with fewer than two names reports TooFewPlayers; with *)
(* two or four names on an engine without pieces and walls it succeeds and *)
(* the roster is those names in order, the i-th on the i-th of the start   *)
(* cells (0,4), (8,4), (4,0), (4,8), and no wall is placed.                *)
(***************************************************************************)
C17_InitPlacesRoster ==
    \A player_names \in GameNameLists :
        /\ Len(player_names) < 2
              => InitOutcome(player_names) = "TooFewPlayers"
        /\ (Len(player_names) \in {2, 4} /\ m_board = [players |-> <<>>, walls |-> <<>>])
              => /\ InitOutcome(player_names) = "none"
                 /\ InitBoard(player_names).players
                      = [i \in 1..Len(player_names) |->
                            Piece(StartCells[i], player_names[i])]
                 /\ InitBoard(player_names).walls = <<>>

C17_Witness ==
    /\ result = "none"
    /\ returned = Void
    /\ m_board.walls = <<>>
    /\ players = <<Piece(Pos(0, 4), "A"), Piece(Pos(8, 4), "B"),
                   Piece(Pos(4, 0), "C"), Piece(Pos(4, 8), "D")>>

(***************************************************************************)
(* C18: for a name on the roster, the vector GetPossibleMoves returns      *)
(* holds no cell twice, not the cell of the piece, and exactly the cells   *)
(* for which IsMovePossible returns true.                                  *)
(***************************************************************************)
NearCells == { Pos(x, y) : x \in -2..10, y \in 2..7 }

RECURSIVE TurnsAfter(_, _, _)
TurnsAfter(current_player, players_count, times) ==
    IF times = 0 THEN current_player
    ELSE TurnsAfter(TurnAfter(current_player, players_count),
                    players_count, times - 1)

C19_TurnsCycle ==
    TurnsAfter(m_current_player, Len(players), Len(players)) = m_current_player

(***************************************************************************)
(* C20: the wall-presence set the validators consult holds exactly the     *)
(* walls of the board; after UpdateBoard(b), IsWallPossible answers with   *)
(* respect to the walls of b.                                              *)
(***************************************************************************)
C20_PresenceMatchesBoard ==
    /\ m_walls_on_board = PlacedWalls
    /\ returned.op = "IsWallPossible"
          => returned.val[2]
               = (/\ returned.val[1].pos.x \in 0..7
                  /\ returned.val[1].pos.y \in 0..7
                  /\ Rivals(returned.val[1]) \cap PlacedWalls = {})

(***************************************************************************)
(* C21: every call of IsWallBetweenAdjPos is made on two cells at          *)
(* Manhattan distance 1, so the assert at its head always holds: no move   *)
(* command makes CheckMove reach a call on cells further apart, and no     *)
(* command ends in the abort of a failed assert.                           *)
(***************************************************************************)
C21_OracleCalledOnAdjacentCells ==
    /\ result # "abort"
    /\ \A move \in MoveInputs :
          Named(move[1])
             => ~CheckMoveAsserts(players[FirstNamed(move[1])].pos, move[2])

(***************************************************************************)
(* C22: after any sequence of QuoridorInit, MovePlayer and AddWall every   *)
(* player has a path of one-cell steps, on the board and across no placed  *)
(* wall, from its cell to a cell of its own goal set.                      *)
(***************************************************************************)
\* a wall off the board, which lies on no edge between two cells
NoWall == Wall(-5, -5, TRUE)

C22_EveryPlayerKeepsAPath ==
    \A i \in Pieces : i <= 4 => HasPath(i, NoWall)

(***************************************************************************)
(* C23: on a board whose only placed wall is w, IsWallBetweenAdjPos(a, b)  *)
(* and IsWallBetweenAdjPos(a, b, w) agree for all adjacent cells a, b on   *)
(* the board, and each gives for (b, a) the answer it gives for (a, b).    *)
(***************************************************************************)
\* pairs of adjacent cells of the board around the walls placed
CornerSteps ==
    { <<a, b>> \in { Pos(x, y) : x \in 0..2, y \in 0..5 } \X Cells :
         Manhattan(a, b) = 1 }

C23_OracleVariantsAgree ==
    \A w \in m_walls_on_board :
        m_walls_on_board = {w}
           => \A step \in CornerSteps :
                /\ IsWallBetweenAdjPosWall(step[1], step[2], w)
                      = IsWallBetweenAdjPos(step[1], step[2])
                /\ IsWallBetweenAdjPosWall(step[2], step[1], w)
                      = IsWallBetweenAdjPosWall(step[1], step[2], w)
                /\ IsWallBetweenAdjPos(step[2], step[1])
                      = IsWallBetweenAdjPos(step[1], step[2])

C23_Witness ==
    /\ m_walls_on_board = {Wall(0, 0, TRUE)}
    /\ returned.op = "CheckWallBlocksPath"
    /\ IsWallBetweenAdjPos(Pos(0, 0), Pos(1, 0))
    /\ IsWallBetweenAdjPosWall(Pos(1, 0), Pos(0, 0), Wall(0, 0, TRUE))
    /\ ~IsWallBetweenAdjPosWall(Pos(1, 1), Pos(1, 2), Wall(0, 0, TRUE))

(***************************************************************************)
(* C24: once QuoridorInit has succeeded the roster holds two or four       *)
(* pieces in every later state; a repeated QuoridorInit never leaves more  *)
(* than four.                                                              *)
(***************************************************************************)
C24_RosterOfTwoOrFour == Len(players) \in {0, 2, 4}

(***************************************************************************)
(* C25: no two pieces of the roster have the same name.                    *)
(***************************************************************************)
C25_NamesAreUnique ==
    \A i \in Pieces, j \in Pieces : i # j => players[i].name # players[j].name

(***************************************************************************)
(* C26: once the current-player index i is within the roster, 0 <= i < n,  *)
(* every NextTurn and every UpdateBoard leaves it within the roster, and a *)
(* step that changes i changes it to (i + 1) mod n.                        *)
(***************************************************************************)
C26_IndexWithinRoster ==
    [][(Len(players) > 0 /\ m_current_player \in 0..(Len(players) - 1))
          => /\ m_current_player' \in 0..(Len(players') - 1)
             /\ m_current_player' # m_current_player
                   => m_current_player' = (m_current_player + 1) % Len(players)]_vars

(***************************************************************************)
(* C27: every piece stands on a cell of the board and no two pieces stand  *)
(* on the same cell.                                                       *)
(***************************************************************************)
C27_PiecesOnDistinctCells ==
    \A i \in Pieces :
        /\ players[i].pos \in Cells
        /\ \A j \in Pieces : i # j => players[i].pos # players[j].pos

=============================================================================
